---- MODULE Spec2Model ----
(***************************************************************************)
(* ChoreShore Home Assistant integration: the data update coordinator      *)
(* (custom_components/choreshore/coordinator.py) as a state machine.       *)
(*                                                                         *)
(* Six specifications share the variables:                                 *)
(*   SpecAnalytics  _calculate_analytics applied to drawn task lists       *)
(*   SpecPoll       one coordinator polling a drawn backend                *)
(*   Spec           the coordinator with complete_task / skip_task calls   *)
(*   SpecSetup      the config flow, the options flow and the interval     *)
(*   SpecEntities   the getters of the sensors, binary sensors, switches   *)
(*   SpecLifecycle  config entries set up and unloaded, services called    *)
(***************************************************************************)
EXTENDS Integers, Sequences, FiniteSets, TLC

VARIABLES
    today,      \* datetime.now().date()
    calcIn,     \* the list handed to _calculate_analytics
    calcOut,    \* what _calculate_analytics returned (or raised)
    backend,    \* the remote tables: chore_instances, chores, profiles
    poll,       \* the _async_update_data call in flight
    data,       \* coordinator.data: the current poll result
    lastPoll,   \* how the latest finished _async_update_data ended
    call,       \* the complete_task / skip_task call in flight
    nCalls,     \* mutation calls started so far
    refreshes,  \* async_request_refresh calls made so far
    host,       \* the host's scheduler: refresh requested, polls in flight
    setup,      \* async_setup_entry: its outcome, hass.data, services, entities
    ui,         \* the entity getter or switch operation run last
    entry,      \* the config flow and the config entry it created
    hass        \* the host across entries: hass.data[DOMAIN] and its services

vars == <<today, calcIn, calcOut, backend, poll, data, lastPoll, call, nCalls, refreshes,
          host, setup, ui, entry, hass>>

---------------------------------------------------------------------------
(* Bounds *)

\* longest task list drawn for _calculate_analytics
MaxList == 3
\* longest completed-then-pending tally list drawn for the completion rate
MaxTotal == 16
\* most task instances in a drawn backend (SpecPoll)
MaxInstances == 2
\* mutation calls started in one behaviour (Spec)
MaxCalls == 1

---------------------------------------------------------------------------
(* Values *)

\* a missing key, or JSON null
NoVal == "none"

\* const.py
TASK_STATUS_PENDING == "pending"
TASK_STATUS_COMPLETED == "completed"
TASK_STATUS_SKIPPED == "skipped"

\* a status the code has no branch for, and the default of task.get("status", "")
Statuses == {TASK_STATUS_PENDING, TASK_STATUS_COMPLETED, TASK_STATUS_SKIPPED, "in_progress", ""}

Date(y, m, d) == [y |-> y, m |-> m, d |-> d]

\* A due_date value as it arrives in the JSON of a task instance.
\*   k = "str"   the text y-m-d, zero padded (pad) or not, with trailing text (tail) or not
\*   k = "text"  a string holding no date
\*   k = "empty" the empty string;  k = "none" key missing or null
\*   k = "num"   a JSON number (a truthy value that is neither str nor date)
DueStr(y, m, d, pad, tail) == [k |-> "str", y |-> y, m |-> m, d |-> d, pad |-> pad, tail |-> tail]
DueOther(k) == [k |-> k, y |-> 0, m |-> 0, d |-> 0, pad |-> FALSE, tail |-> FALSE]

Todays == {Date(2024, 3, 10), Date(2024, 3, 11)}

DueValues ==
    { DueStr(2024, 3, 9, TRUE, FALSE),      \* "2024-03-09"
      DueStr(2024, 3, 10, TRUE, FALSE),     \* "2024-03-10"
      DueStr(2024, 3, 11, TRUE, FALSE),     \* "2024-03-11"
      DueStr(2023, 12, 31, TRUE, FALSE),    \* "2023-12-31"
      DueStr(2024, 3, 9, FALSE, FALSE),     \* "2024-3-9"
      DueStr(2024, 2, 30, TRUE, FALSE),     \* "2024-02-30"
      DueStr(2024, 3, 9, TRUE, TRUE),       \* "2024-03-09T08:00:00"
      DueOther("text"), DueOther("empty"), DueOther("none"), DueOther("num") }

---------------------------------------------------------------------------
(* datetime *)

IsLeap(y) == (y % 4 = 0 /\ y % 100 # 0) \/ y % 400 = 0

DaysInMonth(y, m) ==
    IF m = 2 THEN (IF IsLeap(y) THEN 29 ELSE 28)
    ELSE IF m \in {4, 6, 9, 11} THEN 30 ELSE 31

\* datetime.strptime(s, "%Y-%m-%d").date(): ValueError on text that is no date, on
\* trailing text, and on a month or day out of range; padding is optional.
strptime(s) ==
    IF /\ s.k = "str"
       /\ ~s.tail
       /\ s.m \in 1..12
       /\ s.d \in 1..DaysInMonth(s.y, s.m)
    THEN [ok |-> TRUE, date |-> Date(s.y, s.m, s.d)]
    ELSE [ok |-> FALSE, date |-> Date(0, 0, 0)]

DateLessEq(a, b) == <<a.y, a.m, a.d>> = <<b.y, b.m, b.d>> \/ a.y < b.y
    \/ (a.y = b.y /\ a.m < b.m) \/ (a.y = b.y /\ a.m = b.m /\ a.d < b.d)

\* date.__lt__
DateLess(a, b) ==
    \/ a.y < b.y
    \/ a.y = b.y /\ a.m < b.m
    \/ a.y = b.y /\ a.m = b.m /\ a.d < b.d

\* if due_date:
Truthy(s) == s.k \notin {"empty", "none"}

---------------------------------------------------------------------------
(* _calculate_analytics *)

\* What the overdue check of one pending task does:
\*   "overdue" / "not_overdue" / "skipped" (falsy, or ValueError caught) /
\*   "TypeError" (the comparison of a non-date with a date, which is not caught)
OverdueCheck(due_date, now) ==
    IF ~Truthy(due_date) THEN "skipped"
    ELSE IF due_date.k \in {"str", "text"}
         THEN IF strptime(due_date).ok
              THEN IF DateLess(strptime(due_date).date, now)
                   THEN "overdue" ELSE "not_overdue"
              ELSE "skipped"
         ELSE "TypeError"

\* round(completed / total * 100, 1) in tenths of a percent: round-half-even, as
\* Python's round (the float result equals this for every total below 80).
RoundTenths(completed, total) ==
    LET n == completed * 1000
        q == n \div total
        r == n % total
    IN  IF 2 * r < total THEN q
        ELSE IF 2 * r > total THEN q + 1
        ELSE IF q % 2 = 0 THEN q ELSE q + 1

RateTruncated(completed, total) == IF total > 0 THEN (completed * 1000) \div total ELSE 0

\* round((completed_tasks / total_tasks * 100) if total_tasks > 0 else 0, 1)
CompletionRate(completed, total) == IF total > 0 THEN RoundTenths(completed, total) ELSE 0

Analytics(kind, total, completed, overdue, pending, rate) ==
    [kind |-> kind, total_tasks |-> total, completed_tasks |-> completed,
     overdue_tasks |-> overdue, pending_tasks |-> pending, completion_rate |-> rate]

\* the dict returned for an empty list
EmptyAnalyticsFullRate == Analytics("ok", 0, 0, 0, 0, 1000)

EmptyAnalytics == Analytics("ok", 0, 0, 0, 0, 0)

\* total_tasks = len(instances); completed_tasks = overdue_tasks = pending_tasks = 0
InitialCounters(n) == Analytics("ok", n, 0, 0, 0, 0)

\* the raise of an exception out of _calculate_analytics
RaisedAnalytics == Analytics("TypeError", 0, 0, 0, 0, 0)

\* CountTask with the overdue check outside the pending branch
CountTaskAnyStatus(acc, task, now) ==
    LET c == OverdueCheck(task.due_date, now)
        a == IF task.status = TASK_STATUS_COMPLETED
             THEN [acc EXCEPT !.completed_tasks = @ + 1]
             ELSE IF task.status = TASK_STATUS_PENDING
             THEN [acc EXCEPT !.pending_tasks = @ + 1]
             ELSE acc
    IN  IF c = "TypeError" THEN RaisedAnalytics
        ELSE IF c = "overdue" THEN [a EXCEPT !.overdue_tasks = @ + 1]
        ELSE a

\* One iteration of `for task in instances`, acc the counters so far.
CountTask(acc, task, now) ==
    IF task.status = TASK_STATUS_COMPLETED
    THEN [acc EXCEPT !.completed_tasks = @ + 1]
    ELSE IF task.status = TASK_STATUS_PENDING
    THEN LET c == OverdueCheck(task.due_date, now)
         IN  IF c = "TypeError" THEN RaisedAnalytics
             ELSE IF c = "overdue"
                  THEN [acc EXCEPT !.pending_tasks = @ + 1, !.overdue_tasks = @ + 1]
                  ELSE [acc EXCEPT !.pending_tasks = @ + 1]
    ELSE acc

\* `for task in instances:` from task i on; an exception ends the loop.
RECURSIVE CountFrom(_, _, _, _)
CountFrom(instances, i, acc, now) ==
    IF i > Len(instances) \/ acc.kind # "ok" THEN acc
    ELSE CountFrom(instances, i + 1, CountTask(acc, instances[i], now), now)

_calculate_analytics(instances, now) ==
    IF instances = <<>> THEN EmptyAnalytics
    ELSE LET acc == CountFrom(instances, 1, InitialCounters(Len(instances)), now)
         IN  IF acc.kind # "ok" THEN acc
             ELSE [acc EXCEPT !.completion_rate =
                                  CompletionRate(acc.completed_tasks, acc.total_tasks)]

---------------------------------------------------------------------------
(* SpecAnalytics: _calculate_analytics on drawn lists *)

\* A task record as far as _calculate_analytics reads it.
CalcTask(status, due_date) == [status |-> status, due_date |-> due_date]

\* every due_date under pending; the other statuses with a past date and a number
CalcTasks ==
    { CalcTask(TASK_STATUS_PENDING, d) : d \in DueValues }
    \cup { CalcTask(s, DueStr(2024, 3, 9, TRUE, FALSE)) : s \in Statuses }
    \cup { CalcTask(TASK_STATUS_COMPLETED, DueOther("num")) }

\* completed records followed by dateless pending ones
Tally(completed, total) ==
    [i \in 1..total |-> IF i <= completed
                        THEN CalcTask(TASK_STATUS_COMPLETED, DueOther("none"))
                        ELSE CalcTask(TASK_STATUS_PENDING, DueOther("none"))]

CalcLists ==
    (UNION { [1..n -> CalcTasks] : n \in 0..MaxList })
    \cup UNION { { Tally(c, t) : c \in 0..t } : t \in 1..MaxTotal }

NotCalled == Analytics("not_called", 0, 0, 0, 0, 0)

\* no backend is involved
NoBackend == [instances |-> <<>>, chores |-> {}, profiles |-> {}]

\* coordinator.data before the first poll result is stored (None)
NoData == [chore_instances |-> <<>>, analytics |-> NotCalled, members |-> {},
           last_updated |-> Date(0, 0, 0)]

NoPoll == [outcome |-> "none", failed |-> {}]

PollIdle == [pc |-> "idle", instances |-> <<>>, chore_instances |-> <<>>,
             profiles |-> "not_sent", failed |-> {}]

CallIdle == [pc |-> "idle", op |-> NoVal, task_id |-> 0, status |-> NoVal,
             requested |-> FALSE, result |-> NoVal]

\* the scheduler of the host before any refresh was requested or started
HostIdle == [requested |-> FALSE, inFlight |-> 0]

\* async_setup_entry has not run
\*   entities   the entity objects the platforms construct
\*   platforms  per platform, the exception that left its async_setup_entry
NoPlatforms == [sensor |-> NoVal, binary_sensor |-> NoVal, switch |-> NoVal]

NoSetup == [state |-> "none", stored |-> FALSE, services |-> {}, entities |-> {},
            platforms |-> NoPlatforms]

\* an entity, as far as its getters read its own fields
Entity(kind, chore_id, task_id, due_date) ==
    [kind |-> kind, chore_id |-> chore_id, task_id |-> task_id, due_date |-> due_date]

NoEntity == Entity(NoVal, NoVal, 0, DueOther("none"))

\* no getter or switch operation has run
NoUi == [op |-> NoVal, pc |-> "idle", target |-> NoEntity, raised |-> NoVal,
         icon |-> NoVal, is_overdue |-> FALSE, count |-> 0, task_id |-> 0,
         is_on |-> FALSE, available |-> FALSE]

\* what the setup form hands to async_step_user
UserInput(household, user, interval) ==
    [household_id |-> household, user_id |-> user, update_interval |-> interval]

NoInput == UserInput(NoVal, NoVal, 0)

\* no config flow has run and no config entry exists:
\*   input, response, errors   the setup form submitted last, the answer of the
\*                             validation request, and errors["base"]
\*   exists, data, options     the config entry (options 0: no update_interval set)
\*   update_interval           the interval of the coordinator (0: none constructed)
NoEntry == [input |-> NoInput, response |-> NoVal, errors |-> NoVal,
            exists |-> FALSE, data |-> NoInput, options |-> 0, update_interval |-> 0]

\* the config entries the host may hold
Entries == {"e1", "e2"}

NoServiceCall == [service |-> NoVal, through |-> NoVal, task_id |-> 0]
NoUnload == [entry |-> NoVal, unload_ok |-> FALSE]

\* the host before any entry is set up:
\*   setups    per entry, what async_setup_entry left (stored: its coordinator is
\*             in hass.data[DOMAIN])
\*   handler   the entry whose coordinator the registered service handlers hold
\*   called    the service call made last and the coordinator it went through
\*   unloaded  the async_unload_entry run last and what async_unload_platforms said
NoHass == [setups |-> [e \in Entries |-> NoSetup], handler |-> NoVal,
           called |-> NoServiceCall, unloaded |-> NoUnload]

InitAnalytics ==
    /\ today \in Todays
    /\ calcIn \in CalcLists
    /\ calcOut = NotCalled
    /\ backend = NoBackend
    /\ poll = PollIdle
    /\ data = NoData
    /\ lastPoll = NoPoll
    /\ call = CallIdle
    /\ nCalls = 0
    /\ refreshes = 0
    /\ host = HostIdle
    /\ setup = NoSetup
    /\ ui = NoUi
    /\ entry = NoEntry
    /\ hass = NoHass

Calculate ==
    /\ calcOut = NotCalled
    /\ calcOut' = _calculate_analytics(calcIn, today)
    /\ UNCHANGED <<today, calcIn, backend, poll, data, lastPoll, call, nCalls, refreshes,
                 host, setup, ui, entry, hass>>

NextAnalytics == Calculate

SpecAnalytics == InitAnalytics /\ [][NextAnalytics]_vars

---------------------------------------------------------------------------
(* The backend and the records it serves *)

\* entry.data[CONF_HOUSEHOLD_ID], entry.data[CONF_USER_ID]
household_id == "h1"
user_id == "u1"

Chore(id, household) == [id |-> id, household_id |-> household]
Profile(id, household) == [id |-> id, household_id |-> household]

\* the key "chores", "assigned_user" or "completed_user" not set on an instance
NoChore == Chore(NoVal, NoVal)
NoProfile == Profile(NoVal, NoVal)

\* the chores and profiles tables: c2 and u3 belong to another household, and no
\* profile exists for the user id "u4"
BackendChores == {Chore("c1", "h1"), Chore("c2", "h2")}
BackendProfiles == {Profile("u1", "h1"), Profile("u2", "h1"), Profile("u3", "h2")}

\* A row of chore_instances as response.json() yields it; the three keys the
\* normalizer adds are not set.
Instance(id, shape) ==
    [id |-> id, chore_id |-> shape.chore_id, assigned_to |-> shape.assigned_to,
     completed_by |-> shape.completed_by, status |-> shape.status,
     due_date |-> shape.due_date,
     chores |-> NoChore, assigned_user |-> NoProfile, completed_user |-> NoProfile]

Shape(chore_id, assigned_to, completed_by, status, due_date) ==
    [chore_id |-> chore_id, assigned_to |-> assigned_to, completed_by |-> completed_by,
     status |-> status, due_date |-> due_date]

\* rows get their position as id
MakeInstances(shapes) == [i \in DOMAIN shapes |-> Instance(i, shapes[i])]

Backend(instances) ==
    [instances |-> instances, chores |-> BackendChores, profiles |-> BackendProfiles]

\* an HTTP exchange: status 200, another status, or an exception (timeout, ClientError)
Responses == {"ok", "http_error", "exception"}

\* GET /rest/v1/chore_instances?select=*: every row, of every household
InstancesRows(b) == b.instances

\* the chores request without its household_id parameter
ChoresRowsOfAll(b, h) == b.chores

\* GET /rest/v1/chores?household_id=eq.<h>
ChoresRows(b, h) == { c \in b.chores : c.household_id = h }

\* GET /rest/v1/profiles?id=in.(<ids>)
ProfilesRows(b, ids) == { q \in b.profiles : q.id \in ids }

\* GET /rest/v1/profiles?household_id=eq.<h>
MembersRows(b, h) == { q \in b.profiles : q.household_id = h }

---------------------------------------------------------------------------
(* _fetch_chore_instances: the normalizer *)

\* list(set(instance.get("chore_id") for instance in instances if instance.get("chore_id")))
chore_ids(instances) == { instances[i].chore_id : i \in DOMAIN instances } \ {NoVal}

\* {row["id"]: row for row in rows}, applied to a key it holds
Lookup(rows, id) == CHOOSE r \in rows : r.id = id

Keys(rows) == { r.id : r \in rows }


\* household_instances that keeps the instances whose chore was not fetched
household_instances_keep_all(instances, chores) ==
    LET attach(x) == IF x.chore_id \in Keys(chores)
                     THEN [x EXCEPT !.chores = Lookup(chores, x.chore_id)] ELSE x
    IN  [i \in DOMAIN instances |-> attach(instances[i])]

\* the loop that keeps the instances whose chore_id is in chores_lookup, each with
\* its chore attached
household_instances(instances, chores) ==
    LET kept == SelectSeq(instances, LAMBDA x : x.chore_id \in Keys(chores))
        attach(x) == [x EXCEPT !.chores = Lookup(chores, x.chore_id)]
    IN  [i \in DOMAIN kept |-> attach(kept[i])]

\* list(set(instance.get("assigned_to") for ... if instance.get("assigned_to")))
user_ids(instances) == { instances[i].assigned_to : i \in DOMAIN instances } \ {NoVal}

\* the loop that attaches assigned_user and completed_user from profiles_lookup
attach_profiles(instances, profiles) ==
    LET attach(x) ==
            [x EXCEPT !.assigned_user = IF x.assigned_to \in Keys(profiles)
                                        THEN Lookup(profiles, x.assigned_to) ELSE @,
                      !.completed_user = IF x.completed_by \in Keys(profiles)
                                         THEN Lookup(profiles, x.completed_by) ELSE @]
    IN  [i \in DOMAIN instances |-> attach(instances[i])]

---------------------------------------------------------------------------
(* _async_update_data, one step per awaited request *)

PollAt(pc) == poll.pc = pc

\* The host's scheduler (DataUpdateCoordinator): a poll is started by a timer tick
\* or to serve a requested refresh, and only while no poll is in flight.
SchedulerIdle == PollAt("idle")

\* the scheduler starts _async_update_data; the poll serves the pending request
PollStarted(h) == [h EXCEPT !.requested = FALSE, !.inFlight = @ + 1]

\* the poll is over; a request that arrived while it ran was coalesced into it
\* (coalesce) or stays queued behind it
PollFinished(h, coalesce) ==
    [h EXCEPT !.inFlight = @ - 1, !.requested = @ /\ ~coalesce]

\* a refresh request that awaits _async_update_data itself
async_request_refresh_runs_update(h) == [h EXCEPT !.inFlight = @ + 1]

\* `await self.async_request_refresh()`: the request is handed to the scheduler
async_request_refresh(h) == [h EXCEPT !.requested = TRUE]

\* _fetch_chore_instances returns `result`: on to _fetch_household_members
FetchReturns(result, failed, profiles) ==
    [pc |-> "get_members", instances |-> <<>>, chore_instances |-> result,
     profiles |-> profiles, failed |-> failed]

\* the scheduler (timer tick or requested refresh) calls _async_update_data, which
\* runs up to the first request
PollStart ==
    /\ SchedulerIdle
    /\ poll' = [PollIdle EXCEPT !.pc = "get_instances"]
    /\ host' = PollStarted(host)
    /\ UNCHANGED <<today, calcIn, calcOut, backend, data, lastPoll, call, nCalls, refreshes,
                 setup, ui, entry, hass>>

\* the chore_instances request resolves
FetchInstances ==
    /\ PollAt("get_instances")
    /\ \E resp \in Responses :
          LET instances == InstancesRows(backend)
          IN  poll' =
                IF resp # "ok" THEN FetchReturns(<<>>, {"chore_instances"}, "not_sent")
                ELSE IF instances = <<>> \/ chore_ids(instances) = {}
                     THEN FetchReturns(<<>>, {}, "not_sent")
                     ELSE [poll EXCEPT !.pc = "get_chores", !.instances = instances]
    /\ UNCHANGED <<today, calcIn, calcOut, backend, data, lastPoll, call, nCalls, refreshes,
                 host, setup, ui, entry, hass>>

\* the chores request resolves; the instances are filtered and joined
FetchChores ==
    /\ PollAt("get_chores")
    /\ \E resp \in Responses :
          LET hi == household_instances(poll.instances, ChoresRows(backend, household_id))
          IN  poll' =
                IF resp # "ok" THEN FetchReturns(<<>>, {"chores"}, "not_sent")
                ELSE IF hi # <<>> /\ user_ids(hi) # {}
                     THEN [poll EXCEPT !.pc = "get_profiles", !.instances = <<>>,
                                       !.chore_instances = hi]
                     ELSE FetchReturns(hi, {}, "not_sent")
    /\ UNCHANGED <<today, calcIn, calcOut, backend, data, lastPoll, call, nCalls, refreshes,
                 host, setup, ui, entry, hass>>

\* the profiles request for the assignees resolves
FetchProfiles ==
    /\ PollAt("get_profiles")
    /\ \E resp \in Responses :
          LET hi == poll.chore_instances
              profiles == ProfilesRows(backend, user_ids(hi))
          IN  poll' =
                IF resp = "ok" THEN FetchReturns(attach_profiles(hi, profiles), {}, "ok")
                ELSE IF resp = "http_error" THEN FetchReturns(hi, {"profiles"}, resp)
                ELSE FetchReturns(<<>>, {"profiles"}, resp)
    /\ UNCHANGED <<today, calcIn, calcOut, backend, data, lastPoll, call, nCalls, refreshes,
                 host, setup, ui, entry, hass>>

\* _fetch_household_members
household_members(b, resp) == IF resp = "ok" THEN MembersRows(b, household_id) ELSE {}

\* a return that patches the stored bundle: the task list and the analytics of this
\* poll, the members and the timestamp left as they were
PollResultPatched(chore_instances, analytics, members, now) ==
    [data EXCEPT !.chore_instances = chore_instances, !.analytics = analytics]

\* the dict _async_update_data returns
PollResult(chore_instances, analytics, members, now) ==
    [chore_instances |-> chore_instances, analytics |-> analytics,
     members |-> members, last_updated |-> now]

\* `except Exception as err: raise UpdateFailed(...)`: how the poll ends
PollOutcomeUnwrapped(analytics) ==
    IF analytics.kind = "ok" THEN "published" ELSE analytics.kind

PollOutcome(analytics) == IF analytics.kind = "ok" THEN "published" ELSE "UpdateFailed"

\* the services async_setup_entry registers
SERVICE_COMPLETE_TASK == "complete_task"
SERVICE_SKIP_TASK == "skip_task"
SERVICE_REFRESH_DATA == "refresh_data"
Services == {SERVICE_COMPLETE_TASK, SERVICE_SKIP_TASK, SERVICE_REFRESH_DATA}

\* the ids of the chores attached to the records of a list
AttachedChores(list) == { list[i].chores.id : i \in DOMAIN list } \ {NoVal}

\* sensor.async_setup_entry: one status sensor per chore attached to a record
ChoreSensors(list) ==
    { Entity("chore_sensor", c, 0, DueOther("none")) : c \in AttachedChores(list) }

\* binary_sensor.async_setup_entry: one binary sensor per pending record, which
\* keeps the record (self._task) and its id
TaskBinarySensors(list) ==
    { Entity("task_binary_sensor", NoVal, list[i].id, list[i].due_date) :
          i \in { k \in DOMAIN list : list[k].status = TASK_STATUS_PENDING } }

\* switch.async_setup_entry: one switch per chore attached to a pending record
ChoreSwitches(list) ==
    { Entity("chore_switch", c, 0, DueOther("none")) :
          c \in AttachedChores(SelectSeq(list, LAMBDA x : x.status = TASK_STATUS_PENDING)) }

\* sensor.async_setup_entry: the five analytics sensors, named by the key they show
AnalyticsSensors ==
    { Entity("analytics_sensor", key, 0, DueOther("none")) :
          key \in {"total_tasks", "completed_tasks", "overdue_tasks", "pending_tasks",
                   "completion_rate"} }

\* the attributes a coordinator has after __init__: those it assigns, and those of
\* the host's DataUpdateCoordinator (super().__init__)
CoordinatorAttributes ==
    {"entry", "household_id", "user_id", "session",
     "hass", "logger", "name", "update_interval", "data"}

\* the attributes of the coordinator that the constructor of an entity reads for
\* its device info
DeviceInfoReads(kind) ==
    IF kind = "task_binary_sensor" THEN {"household_id"}
    ELSE {"household_id", "user_id", "user_name"}

\* the constructor of an entity: reading an attribute the coordinator does not
\* have raises AttributeError
ConstructorRaises(kind) ==
    IF DeviceInfoReads(kind) \subseteq CoordinatorAttributes THEN NoVal ELSE "AttributeError"

\* async_setup_entry of a platform constructs its entities before it calls
\* async_add_entities: the exception of a constructor leaves it
PlatformRaises(entities) ==
    IF \E e \in entities : ConstructorRaises(e.kind) # NoVal THEN "AttributeError" ELSE NoVal

Platforms(result) ==
    [sensor |-> PlatformRaises(AnalyticsSensors \cup ChoreSensors(result.chore_instances)),
     binary_sensor |-> PlatformRaises(TaskBinarySensors(result.chore_instances)),
     switch |-> PlatformRaises(ChoreSwitches(result.chore_instances))]

\* async_forward_entry_setups(entry, PLATFORMS): the entity objects the three
\* platforms construct. The getters and handlers of the entities are modelled on
\* these objects, whether or not their platform went on to async_add_entities.
PlatformEntities(result) ==
    AnalyticsSensors \cup ChoreSensors(result.chore_instances)
        \cup TaskBinarySensors(result.chore_instances)
        \cup ChoreSwitches(result.chore_instances)

\* async_setup_entry that stores the coordinator before the first refresh
async_setup_entry_stores_first(s, outcome, result) ==
    IF s.state = "ready" THEN s
    ELSE IF outcome = "published"
    THEN [state |-> "ready", stored |-> TRUE, services |-> Services,
          entities |-> PlatformEntities(result), platforms |-> Platforms(result)]
    ELSE [state |-> "ConfigEntryNotReady", stored |-> TRUE, services |-> {},
          entities |-> {}, platforms |-> NoPlatforms]

\* async_setup_entry around the first refresh (s.state = "ready": the entry is set
\* up already and the poll was a later one): a first refresh that raised ends the
\* setup with ConfigEntryNotReady; else the coordinator is stored in hass.data, the
\* platforms create their entities and the services are registered
async_setup_entry(s, outcome, result) ==
    IF s.state = "ready" THEN s
    ELSE IF outcome = "published"
    THEN [state |-> "ready", stored |-> TRUE, services |-> Services,
          entities |-> PlatformEntities(result), platforms |-> Platforms(result)]
    ELSE [state |-> "ConfigEntryNotReady", stored |-> FALSE, services |-> {},
          entities |-> {}, platforms |-> NoPlatforms]

\* the members request resolves; the analytics are calculated and the result is
\* returned to the scheduler, which stores it as coordinator.data, or UpdateFailed
\* is raised and coordinator.data stays; a first refresh ends async_setup_entry
FetchMembers ==
    /\ PollAt("get_members")
    /\ \E resp \in Responses, coalesce \in BOOLEAN :
          LET members == household_members(backend, resp)
              failed == poll.failed \cup (IF resp = "ok" THEN {} ELSE {"members"})
              analytics == _calculate_analytics(poll.chore_instances, today)
              outcome == PollOutcome(analytics)
              result == PollResult(poll.chore_instances, analytics, members, today)
          IN  /\ calcIn' = poll.chore_instances
              /\ calcOut' = analytics
              /\ data' = IF outcome = "published" THEN result ELSE data
              /\ lastPoll' = [outcome |-> outcome, failed |-> failed]
              /\ setup' = async_setup_entry(setup, outcome, result)
              /\ host' = PollFinished(host, coalesce)
    /\ poll' = PollIdle
    /\ UNCHANGED <<today, backend, call, nCalls, refreshes, ui, entry, hass>>

\* midnight passes
NextDay(d) ==
    IF d.d < DaysInMonth(d.y, d.m) THEN Date(d.y, d.m, d.d + 1)
    ELSE IF d.m < 12 THEN Date(d.y, d.m + 1, 1) ELSE Date(d.y + 1, 1, 1)

Tick ==
    /\ NextDay(today) \in Todays
    /\ today' = NextDay(today)
    /\ UNCHANGED <<calcIn, calcOut, backend, poll, data, lastPoll, call, nCalls, refreshes,
                 host, setup, ui, entry, hass>>

---------------------------------------------------------------------------
(* SpecPoll: one coordinator polling a drawn backend *)

Yesterday == DueStr(2024, 3, 9, TRUE, FALSE)

PollShapes ==
    { Shape("c1", "u1", NoVal, TASK_STATUS_PENDING, Yesterday),
      Shape("c1", "u1", NoVal, TASK_STATUS_PENDING, DueStr(2024, 3, 10, TRUE, FALSE)),
      Shape("c1", "u1", "u2", TASK_STATUS_COMPLETED, Yesterday),
      Shape("c1", "u2", NoVal, TASK_STATUS_PENDING, DueStr(2024, 3, 11, TRUE, FALSE)),
      Shape("c2", "u3", NoVal, TASK_STATUS_PENDING, Yesterday),
      Shape("c1", "u1", NoVal, TASK_STATUS_PENDING, DueOther("num")),
      Shape("c1", NoVal, NoVal, TASK_STATUS_SKIPPED, Yesterday),
      Shape(NoVal, "u1", NoVal, "", DueOther("none")),
      Shape("c1", "u4", NoVal, TASK_STATUS_PENDING, DueOther("text")) }

InitPoll ==
    /\ today = Date(2024, 3, 10)
    /\ calcIn = <<>>
    /\ calcOut = NotCalled
    /\ \E shapes \in UNION { [1..n -> PollShapes] : n \in 0..MaxInstances } :
          backend = Backend(MakeInstances(shapes))
    /\ poll = PollIdle
    /\ data = NoData
    /\ lastPoll = NoPoll
    /\ call = CallIdle
    /\ nCalls = 0
    /\ refreshes = 0
    /\ host = HostIdle
    /\ setup = NoSetup
    /\ ui = NoUi
    /\ entry = NoEntry
    /\ hass = NoHass

NextPoll ==
    \/ PollStart
    \/ FetchInstances
    \/ FetchChores
    \/ FetchProfiles
    \/ FetchMembers
    \/ Tick

SpecPoll == InitPoll /\ [][NextPoll]_vars

---------------------------------------------------------------------------
(* Claims *)

Abs(x) == IF x < 0 THEN 0 - x ELSE x

\* The reference reading of a task list: index sets by status, and the calendar
\* date a due_date value denotes, ordered by a day number.
WithStatus(list, status) == { i \in DOMAIN list : list[i].status = status }

DayNumber(date) == (date.y * 12 + date.m) * 31 + date.d

DueBefore(due_date, now) ==
    /\ strptime(due_date).ok
    /\ DayNumber(strptime(due_date).date) < DayNumber(now)

OverdueIdx(list, now) ==
    { i \in WithStatus(list, TASK_STATUS_PENDING) : DueBefore(list[i].due_date, now) }

\* due yesterday/pending, due tomorrow/pending, due yesterday/completed
ScenarioList ==
    << CalcTask(TASK_STATUS_PENDING, DueStr(2024, 3, 9, TRUE, FALSE)),
       CalcTask(TASK_STATUS_PENDING, DueStr(2024, 3, 11, TRUE, FALSE)),
       CalcTask(TASK_STATUS_COMPLETED, DueStr(2024, 3, 9, TRUE, FALSE)) >>

\* C2: whenever _calculate_analytics returns, overdue_tasks is exactly the number of
\* pending records whose due date is strictly before today (a pending record due
\* today or later, and a completed or skipped record, is never counted); the
\* three-record scenario gives total 3, completed 1, pending 2, overdue 1, rate 33.3.
C2_OverdueExact ==
    calcOut.kind = "ok" =>
        /\ calcOut.overdue_tasks = Cardinality(OverdueIdx(calcIn, today))
        /\ (calcIn = ScenarioList /\ today = Date(2024, 3, 10))
               => calcOut = Analytics("ok", 3, 1, 1, 2, 333)

\* C2 witness: a returned result for a list holding a pending record due today
\* (not counted) next to a pending record due yesterday (counted).
C2_Witness ==
    /\ calcOut.kind = "ok"
    /\ today = Date(2024, 3, 10)
    /\ \E i, j \in DOMAIN calcIn :
          /\ calcIn[i] = CalcTask(TASK_STATUS_PENDING, DueStr(2024, 3, 10, TRUE, FALSE))
          /\ calcIn[j] = CalcTask(TASK_STATUS_PENDING, DueStr(2024, 3, 9, TRUE, FALSE))
    /\ calcOut.overdue_tasks = 1

\* C3: for every list with total > 0 the completion rate, in tenths of a percent, is
\* the tenth nearest to completed/total*100 (1 of 3 gives 33.3) and lies in 0..100;
\* for total = 0 the rate is 0 and no division is made.
C3_RateRounded ==
    calcOut.kind = "ok" =>
        LET t == Len(calcIn)
            c == Cardinality(WithStatus(calcIn, TASK_STATUS_COMPLETED))
            r == calcOut.completion_rate
        IN  /\ t > 0 => /\ 2 * Abs(r * t - 1000 * c) <= t
                        /\ r \in 0..1000
            /\ t = 0 => r = 0
            /\ (t = 3 /\ c = 1) => r = 333

\* C3 witness: a returned result for 2 completed of 3, where rounding goes up (66.7).
C3_Witness ==
    /\ calcOut.kind = "ok"
    /\ Len(calcIn) = 3
    /\ Cardinality(WithStatus(calcIn, TASK_STATUS_COMPLETED)) = 2
    /\ calcOut.completion_rate = 667

---------------------------------------------------------------------------
(* complete_task and skip_task *)

\* the backend's complete_shared_chore_instances / skip_shared_chore_instances: a
\* pending instance becomes completed (by `user`) or skipped; any other is left as is
ApplyMutation(b, op, task_id, user) ==
    LET apply(x) ==
            IF x.id = task_id /\ x.status = TASK_STATUS_PENDING
            THEN IF op = "complete_task"
                 THEN [x EXCEPT !.status = TASK_STATUS_COMPLETED, !.completed_by = user]
                 ELSE [x EXCEPT !.status = TASK_STATUS_SKIPPED]
            ELSE x
    IN  [b EXCEPT !.instances = [i \in DOMAIN b.instances |-> apply(b.instances[i])]]

Branch(refresh, result) == [refresh |-> refresh, result |-> result]

complete_task_refresh_always(resp) == Branch(TRUE, IF resp = "ok" THEN "True" ELSE "False")

\* complete_task after the POST: status 200 requests a refresh and returns True;
\* another status, or an exception, returns False
complete_task_branch(resp) ==
    IF resp = "ok" THEN Branch(TRUE, "True") ELSE Branch(FALSE, "False")

skip_task_return_first(resp) == Branch(FALSE, IF resp = "ok" THEN "True" ELSE "False")

\* skip_task after the POST, likewise
skip_task_branch(resp) ==
    IF resp = "ok" THEN Branch(TRUE, "True") ELSE Branch(FALSE, "False")

CallFree == call.pc \in {"idle", "returned"}

---------------------------------------------------------------------------
(* switch.py: ChoreShoreUserChoreSwitch *)

Switches(entities) == { e \in entities : e.kind = "chore_switch" }

\* _get_current_instances without the assigned_to condition
_get_current_instances_any_user(d, chore_id) ==
    SelectSeq(d.chore_instances,
              LAMBDA x : x.chores.id = chore_id /\ x.status = TASK_STATUS_PENDING)

\* the pending instances of the switch's chore assigned to the configured user
_get_current_instances(d, chore_id) ==
    SelectSeq(d.chore_instances,
              LAMBDA x : /\ x.chores.id = chore_id
                         /\ x.status = TASK_STATUS_PENDING
                         /\ x.assigned_to = user_id)

\* where the first loop of _get_most_overdue_instance puts an instance:
\*   "overdue" / "future": a tuple (instance, date) in that list
\*   "dict": the instance itself in future_instances (no date, or ValueError caught)
\*   "TypeError": the comparison of a non-date with today, which is not caught
Classify(due_date, now) ==
    IF ~Truthy(due_date) THEN "dict"
    ELSE IF due_date.k \in {"str", "text"}
         THEN IF strptime(due_date).ok
              THEN IF DateLess(strptime(due_date).date, now) THEN "overdue" ELSE "future"
              ELSE "dict"
         ELSE "TypeError"

\* list.sort(key=lambda x: x[1])[0]: the earliest date, the first of equal ones
Earliest(instances, idx) ==
    CHOOSE i \in idx :
        \A j \in idx :
            LET di == strptime(instances[i].due_date).date
                dj == strptime(instances[j].due_date).date
            IN  /\ ~DateLess(dj, di)
                /\ (dj = di => i <= j)

MostOverdue(raised, id) == [raised |-> raised, id |-> id]

\* _get_most_overdue_instance: the id of the instance returned (0: None), or the
\* exception raised. With no overdue instance, the comprehension over
\* future_instances unpacks every element as a pair: an instance dict in the list
\* (more than two keys) raises ValueError; of a pair (instance, date) the first
\* part is a dict, so with_dates and without_dates both stay empty and the
\* fallback returns instances[0].
_get_most_overdue_instance(instances, now) ==
    LET idx == DOMAIN instances
        cls(i) == Classify(instances[i].due_date, now)
        overdue == { i \in idx : cls(i) = "overdue" }
    IN  IF instances = <<>> THEN MostOverdue(NoVal, 0)
        ELSE IF \E i \in idx : cls(i) = "TypeError" THEN MostOverdue("TypeError", 0)
        ELSE IF overdue # {} THEN MostOverdue(NoVal, instances[Earliest(instances, overdue)].id)
        ELSE IF \E i \in idx : cls(i) = "dict" THEN MostOverdue("ValueError", 0)
        ELSE MostOverdue(NoVal, instances[1].id)

\* async_turn_on has sent its complete_task call and awaits it
TurnOnAwaits(u) == u.op = "async_turn_on" /\ u.pc = "awaiting"

\* async_turn_on after `success = await self.coordinator.complete_task(task_id)`
turn_on_resumes(u, success) ==
    IF TurnOnAwaits(u) THEN [u EXCEPT !.pc = "done", !.raised = NoVal] ELSE u

\* a task_id a caller may pass: the id of an instance, or 0, the id of none
TaskIds == DOMAIN backend.instances \cup {0}

StartCall(op, task_id) ==
    /\ CallFree
    /\ nCalls < MaxCalls
    /\ call' = [pc |-> "posting", op |-> op, task_id |-> task_id, status |-> NoVal,
                requested |-> FALSE, result |-> NoVal]
    /\ nCalls' = nCalls + 1
    /\ UNCHANGED <<today, calcIn, calcOut, backend, poll, data, lastPoll, refreshes,
                 host, setup, ui, entry, hass>>

\* the complete_task service: complete_task(task_id) is called and sends its POST
CompleteTask ==
    /\ SERVICE_COMPLETE_TASK \in setup.services
    /\ \E task_id \in TaskIds : StartCall("complete_task", task_id)

\* the skip_task service: skip_task(task_id, reason) is called and sends its POST
SkipTask ==
    /\ SERVICE_SKIP_TASK \in setup.services
    /\ \E task_id \in TaskIds : StartCall("skip_task", task_id)

\* The POST resolves. With status 200 the backend has applied the mutation; with
\* another status it has not; a timeout or connection error can come either way.
PostResolves ==
    /\ call.pc = "posting"
    /\ \E resp \in Responses, applied \in BOOLEAN :
          LET b == IF call.op = "complete_task"
                   THEN complete_task_branch(resp) ELSE skip_task_branch(resp)
          IN  /\ resp = "ok" => applied
              /\ resp = "http_error" => ~applied
              /\ backend' = IF applied
                            THEN ApplyMutation(backend, call.op, call.task_id, user_id)
                            ELSE backend
              /\ call' = [call EXCEPT !.pc = IF b.refresh THEN "refreshing" ELSE "returned",
                                      !.status = resp,
                                      !.requested = b.refresh,
                                      !.result = b.result]
              /\ refreshes' = IF b.refresh THEN refreshes + 1 ELSE refreshes
              /\ host' = IF b.refresh THEN async_request_refresh(host) ELSE host
              /\ ui' = IF b.refresh THEN ui ELSE turn_on_resumes(ui, b.result)
    /\ UNCHANGED <<today, calcIn, calcOut, poll, data, lastPoll, nCalls, setup, entry, hass>>

\* `await self.async_request_refresh()` completes and the call returns True; a
\* switch turn-on that awaited the call goes on at once and requests a refresh again
RefreshReturns ==
    /\ call.pc = "refreshing"
    /\ call' = [call EXCEPT !.pc = "returned"]
    /\ ui' = turn_on_resumes(ui, call.result)
    /\ host' = IF TurnOnAwaits(ui) THEN async_request_refresh(host) ELSE host
    /\ refreshes' = IF TurnOnAwaits(ui) THEN refreshes + 1 ELSE refreshes
    /\ UNCHANGED <<today, calcIn, calcOut, backend, poll, data, lastPoll, nCalls, setup, entry, hass>>

\* the refresh_data service: `await coordinator.async_request_refresh()`
RefreshData ==
    /\ SERVICE_REFRESH_DATA \in setup.services
    /\ nCalls < MaxCalls
    /\ host' = async_request_refresh(host)
    /\ refreshes' = refreshes + 1
    /\ nCalls' = nCalls + 1
    /\ UNCHANGED <<today, calcIn, calcOut, backend, poll, data, lastPoll, call, setup, ui, entry, hass>>

\* async_turn_on of a chore switch, up to the POST of complete_task: no pending
\* instance of the chore for the user, or none found, returns; an exception of
\* _get_most_overdue_instance leaves the handler
SwitchTurnOn ==
    /\ CallFree
    /\ ~TurnOnAwaits(ui)
    /\ nCalls < MaxCalls
    /\ \E e \in Switches(setup.entities) :
          LET current_instances == _get_current_instances(data, e.chore_id)
              most_overdue == _get_most_overdue_instance(current_instances, today)
              sends == current_instances # <<>> /\ most_overdue.raised = NoVal
          IN  /\ ui' = [NoUi EXCEPT !.op = "async_turn_on",
                                    !.pc = IF sends THEN "awaiting" ELSE "done",
                                    !.target = e,
                                    !.raised = most_overdue.raised,
                                    !.task_id = most_overdue.id]
              /\ call' = IF sends
                         THEN [pc |-> "posting", op |-> "complete_task",
                               task_id |-> most_overdue.id, status |-> NoVal,
                               requested |-> FALSE, result |-> NoVal]
                         ELSE call
              /\ nCalls' = nCalls + 1
    /\ UNCHANGED <<today, calcIn, calcOut, backend, poll, data, lastPoll, refreshes,
                 host, setup, entry, hass>>

\* async_turn_off that requested a refresh
SwitchTurnOffRefreshes ==
    /\ ~TurnOnAwaits(ui)
    /\ nCalls < MaxCalls
    /\ \E e \in Switches(setup.entities) :
          ui' = [NoUi EXCEPT !.op = "async_turn_off", !.pc = "done", !.target = e]
    /\ nCalls' = nCalls + 1
    /\ host' = async_request_refresh(host)
    /\ refreshes' = refreshes + 1
    /\ UNCHANGED <<today, calcIn, calcOut, backend, poll, data, lastPoll, call, setup, entry, hass>>

\* async_turn_off of a chore switch: a warning is logged
SwitchTurnOff ==
    /\ ~TurnOnAwaits(ui)
    /\ nCalls < MaxCalls
    /\ \E e \in Switches(setup.entities) :
          ui' = [NoUi EXCEPT !.op = "async_turn_off", !.pc = "done", !.target = e]
    /\ nCalls' = nCalls + 1
    /\ UNCHANGED <<today, calcIn, calcOut, backend, poll, data, lastPoll, call, refreshes,
                 host, setup, entry, hass>>

---------------------------------------------------------------------------
(* Spec: the coordinator polling while tasks are completed and skipped *)

CallShapes ==
    { Shape("c1", "u1", NoVal, TASK_STATUS_PENDING, Yesterday),
      Shape("c1", "u2", NoVal, TASK_STATUS_PENDING, DueStr(2024, 3, 11, TRUE, FALSE)),
      Shape("c1", "u1", "u1", TASK_STATUS_COMPLETED, Yesterday) }

\* the chore_instances tables drawn: none, one of each shape, and two pending
\* instances of the user of which the second is the one due first
CallTables ==
    { <<>> } \cup { <<shape>> : shape \in CallShapes }
        \cup { << Shape("c1", "u1", NoVal, TASK_STATUS_PENDING, DueStr(2024, 3, 11, TRUE, FALSE)),
                  Shape("c1", "u1", NoVal, TASK_STATUS_PENDING, Yesterday) >> }

Init ==
    /\ today = Date(2024, 3, 10)
    /\ calcIn = <<>>
    /\ calcOut = NotCalled
    /\ \E shapes \in CallTables : backend = Backend(MakeInstances(shapes))
    /\ poll = PollIdle
    /\ data = NoData
    /\ lastPoll = NoPoll
    /\ call = CallIdle
    /\ nCalls = 0
    /\ refreshes = 0
    /\ host = HostIdle
    /\ setup = NoSetup
    /\ ui = NoUi
    /\ entry = NoEntry
    /\ hass = NoHass

Next ==
    \/ PollStart
    \/ FetchInstances
    \/ FetchChores
    \/ FetchProfiles
    \/ FetchMembers
    \/ CompleteTask
    \/ SkipTask
    \/ PostResolves
    \/ RefreshReturns
    \/ RefreshData
    \/ SwitchTurnOn
    \/ SwitchTurnOff

Spec == Init /\ [][Next]_vars

---------------------------------------------------------------------------
(* Claims on the poll (SpecPoll) *)

HasData == data # NoData

\* the counts of a task list, read off the list
CountsOf(list, now) ==
    [total_tasks |-> Len(list),
     completed_tasks |-> Cardinality(WithStatus(list, TASK_STATUS_COMPLETED)),
     pending_tasks |-> Cardinality(WithStatus(list, TASK_STATUS_PENDING)),
     overdue_tasks |-> Cardinality(OverdueIdx(list, now))]

CountsMatch(analytics, list, now) ==
    \A f \in DOMAIN CountsOf(list, now) : analytics[f] = CountsOf(list, now)[f]

\* C1: whenever _calculate_analytics returns, completed + pending <= total and
\* overdue <= pending, the counts being those of the list it was given; and the
\* analytics of the stored poll result are the counts of the chore_instances list of
\* that same poll result (overdue as of the day the poll ran).
C1_AnalyticsConsistent ==
    /\ calcOut.kind = "ok" =>
          /\ calcOut.completed_tasks + calcOut.pending_tasks <= calcOut.total_tasks
          /\ calcOut.overdue_tasks <= calcOut.pending_tasks
          /\ calcOut.total_tasks = Len(calcIn)
          /\ calcOut.completed_tasks = Cardinality(WithStatus(calcIn, TASK_STATUS_COMPLETED))
          /\ calcOut.pending_tasks = Cardinality(WithStatus(calcIn, TASK_STATUS_PENDING))
    /\ HasData =>
          /\ data.analytics.kind = "ok"
          /\ CountsMatch(data.analytics, data.chore_instances, data.last_updated)
          /\ data.analytics.completed_tasks + data.analytics.pending_tasks
                <= data.analytics.total_tasks
          /\ data.analytics.overdue_tasks <= data.analytics.pending_tasks

\* C1 witness: a stored poll result of two records, one completed with a past due
\* date and one pending and overdue.
C1_Witness ==
    /\ HasData
    /\ data.analytics.total_tasks = 2
    /\ data.analytics.completed_tasks = 1
    /\ data.analytics.overdue_tasks = 1
    /\ \E i \in DOMAIN data.chore_instances :
          /\ data.chore_instances[i].status = TASK_STATUS_COMPLETED
          /\ DueBefore(data.chore_instances[i].due_date, data.last_updated)

AllZero == Analytics("ok", 0, 0, 0, 0, 0)

\* C4: _calculate_analytics on an empty list returns all zeros with completion_rate 0,
\* and a poll whose task fetch yields nothing ends published with exactly that
\* snapshot and an empty task list.
C4_EmptyAllZero ==
    /\ (calcOut # NotCalled /\ calcIn = <<>>) =>
          /\ calcOut = AllZero
          /\ lastPoll.outcome = "published"
          /\ data.chore_instances = <<>>
          /\ data.analytics = AllZero
    /\ (HasData /\ data.chore_instances = <<>>) => data.analytics = AllZero

\* C4 witness: a poll of a backend that holds instances ended with an empty task
\* list (a request failed, or no instance belongs to the household) and was published.
C4_Witness ==
    /\ backend.instances # <<>>
    /\ calcOut # NotCalled
    /\ calcIn = <<>>
    /\ lastPoll.outcome = "published"
    /\ data.analytics.completion_rate = 0

\* a pending record whose due_date is not a date in YYYY-MM-DD form
MalformedPending(list) ==
    { i \in WithStatus(list, TASK_STATUS_PENDING) : ~strptime(list[i].due_date).ok }

\* C5 (as claimed): a pending record with a malformed due date never makes
\* _calculate_analytics raise nor the poll fail; it is counted in total and pending
\* and left out of overdue.
C5_MalformedNeverRaises ==
    (calcOut # NotCalled /\ MalformedPending(calcIn) # {}) =>
        /\ calcOut.kind = "ok"
        /\ lastPoll.outcome = "published"
        /\ CountsMatch(calcOut, calcIn, today)

\* the rows of `fetched` whose chore_id is the id of one of `chores`
Matching(fetched, chores) == { i \in DOMAIN fetched : fetched[i].chore_id \in Keys(chores) }

\* _fetch_chore_instances has returned and every request it made got status 200
FetchSucceeded == PollAt("get_members") /\ poll.failed = {}

\* C6 (as claimed): every fetched instance is in the normalizer output, with its
\* chore attached when its chore_id matches a fetched chore and without when not.
C6_AllInstancesRetained ==
    FetchSucceeded =>
        \A i \in DOMAIN backend.instances :
            \E j \in DOMAIN poll.chore_instances :
                poll.chore_instances[j].id = backend.instances[i].id

\* C6 (amended): the output holds, in the fetched order, exactly the instances whose
\* chore_id matches a fetched chore definition, each with that definition attached
\* and its own fields unchanged; an instance that matches none is dropped.
C6_MatchedRetainedOthersDropped ==
    FetchSucceeded =>
        LET fetched == backend.instances
            chores == ChoresRows(backend, household_id)
            out == poll.chore_instances
        IN  /\ { out[j].id : j \in DOMAIN out } = { fetched[i].id : i \in Matching(fetched, chores) }
            /\ \A j, k \in DOMAIN out : j < k => out[j].id < out[k].id
            /\ \A j \in DOMAIN out :
                  /\ out[j].chores \in chores
                  /\ out[j].chores.id = out[j].chore_id
                  /\ \A f \in {"chore_id", "assigned_to", "completed_by", "status", "due_date"} :
                        out[j][f] = fetched[out[j].id][f]

\* C6 witness: of two fetched instances one matches a household chore and is
\* retained with it, the other matches none and is dropped.
C6_Witness ==
    /\ FetchSucceeded
    /\ Len(backend.instances) = 2
    /\ Len(poll.chore_instances) = 1
    /\ poll.chore_instances[1].chores = Chore("c1", "h1")

\* C7 (as claimed): in the normalizer output, an assigned_to or completed_by that
\* identifies an existing profile has that profile attached (whether or not the
\* completing user is an assignee), and one with no profile leaves the field unset.
C7_ProfilesAttached ==
    FetchSucceeded =>
        \A j \in DOMAIN poll.chore_instances :
            LET x == poll.chore_instances[j]
                existing == backend.profiles
            IN  /\ x.assigned_user = IF x.assigned_to \in Keys(existing)
                                     THEN Lookup(existing, x.assigned_to) ELSE NoProfile
                /\ x.completed_user = IF x.completed_by \in Keys(existing)
                                      THEN Lookup(existing, x.completed_by) ELSE NoProfile

\* C8 (as claimed): a poll in which a read request got a non-200 status or raised
\* still completes and publishes a poll result; no exception escapes it.
C8_FailedRequestStillPublishes ==
    lastPoll.failed # {} => lastPoll.outcome = "published"

---------------------------------------------------------------------------
(* Claims on complete_task and skip_task (Spec) *)

\* C9: for complete_task and skip_task alike, a call whose POST got status 200
\* returns True, and at the step at which it returns True the refresh has already
\* been requested: success is never reported ahead of the refresh request.
C9_RefreshBeforeTrue ==
    /\ [](call.pc = "returned" /\ call.status = "ok" =>
              /\ call.result = "True"
              /\ call.requested
              /\ refreshes >= 1)
    /\ [][(call'.pc = "returned" /\ call.pc # "returned" /\ call'.result = "True")
              => (call.requested /\ call.pc = "refreshing")]_vars

\* C9 witness: a skip_task call has returned True after its refresh request.
C9_Witness ==
    /\ call.pc = "returned"
    /\ call.op = "skip_task"
    /\ call.status = "ok"
    /\ call.result = "True"
    /\ call.requested

\* C10: for complete_task and skip_task alike, a call whose POST got a non-200
\* status or raised returns False, with no refresh requested and the stored poll
\* result untouched; the poll result changes only when a poll finishes.
C10_FailureLeavesData ==
    /\ [](call.status \in {"http_error", "exception"} =>
              /\ call.pc = "returned"
              /\ call.result = "False"
              /\ ~call.requested)
    /\ [][(call.pc = "posting" /\ call'.status \in {"http_error", "exception"})
              => (data' = data /\ refreshes' = refreshes)]_vars
    /\ [][data' # data => PollAt("get_members")]_vars

\* C10 witness: a complete_task call returned False after an exception while a
\* poll result was stored.
C10_Witness ==
    /\ HasData
    /\ call.pc = "returned"
    /\ call.op = "complete_task"
    /\ call.status = "exception"
    /\ call.result = "False"
    /\ refreshes = 0

---------------------------------------------------------------------------
(* Claims on the poll result after a mutation (Spec) *)

\* the stored poll result lists task_id with status pending
ListedPending(d, task_id) ==
    \E i \in DOMAIN d.chore_instances :
        /\ d.chore_instances[i].id = task_id
        /\ d.chore_instances[i].status = TASK_STATUS_PENDING

\* the backend holds task_id as completed
BackendCompleted(b, task_id) ==
    /\ task_id \in DOMAIN b.instances
    /\ b.instances[task_id].status = TASK_STATUS_COMPLETED

\* C11 (as claimed): once complete_task(task_id) has returned True for a task the
\* backend has marked completed, the stored poll result, whenever it is read, does
\* not list that task id with status pending.
C11_NoLongerPending ==
    (/\ call.pc = "returned"
     /\ call.op = "complete_task"
     /\ call.result = "True"
     /\ BackendCompleted(backend, call.task_id))
        => ~ListedPending(data, call.task_id)

---------------------------------------------------------------------------
(* Claims on the exposed operations (Spec) *)

\* a step at which a complete or skip mutation is sent
MutationSent == call'.pc = "posting" /\ call.pc # "posting"

\* the stored poll result lists task_id with one of `statuses`
ListedAs(d, task_id, statuses) ==
    \E i \in DOMAIN d.chore_instances :
        /\ d.chore_instances[i].id = task_id
        /\ d.chore_instances[i].status \in statuses

\* C12 (as claimed): no exposed operation sends a complete or skip mutation for a
\* task that the current poll result lists as completed or skipped.
C12_NoMutationForFinished ==
    [][MutationSent =>
          ~ListedAs(data, call'.task_id, {TASK_STATUS_COMPLETED, TASK_STATUS_SKIPPED})]_vars

\* C12 (amended): a switch turn-on sends a complete mutation, and only for a task
\* that the current poll result lists as pending, of the switch's chore and assigned
\* to the configured user; a switch turn-off sends nothing and requests nothing.
C12_SwitchSendsOnlyPending ==
    /\ [][(MutationSent /\ TurnOnAwaits(ui')) =>
              /\ call'.op = "complete_task"
              /\ \E i \in DOMAIN data.chore_instances :
                    LET x == data.chore_instances[i]
                    IN  /\ x.id = call'.task_id
                        /\ x.status = TASK_STATUS_PENDING
                        /\ x.assigned_to = user_id
                        /\ x.chores.id = ui'.target.chore_id]_vars
    /\ [][(ui'.op = "async_turn_off" /\ ui' # ui) =>
              /\ call' = call
              /\ backend' = backend
              /\ host' = host
              /\ refreshes' = refreshes]_vars

\* C12 witness: a turn-on has sent the complete mutation for the second of two
\* pending instances, the one due first.
C12_Witness ==
    /\ TurnOnAwaits(ui)
    /\ call.pc = "posting"
    /\ call.op = "complete_task"
    /\ call.task_id = 2
    /\ Len(data.chore_instances) = 2

---------------------------------------------------------------------------
(* Claims on polls in flight (Spec) *)

\* a step at which a refresh is requested
RefreshRequested == refreshes' > refreshes

---------------------------------------------------------------------------
(* Claims on the replacement of the poll result (Spec) *)

\* C14: coordinator.data changes only at the step that ends a poll, after the
\* requests of that poll have all resolved, and then as a whole: the task list is
\* the list _fetch_chore_instances returned in this poll, the analytics are those of
\* that list, the members and the timestamp are this poll's; while a poll fetches
\* and joins, the stored bundle and its records stay as they were published.
C14_WholeBundleReplaced ==
    /\ [][data' # data =>
              /\ PollAt("get_members")
              /\ poll'.pc = "idle"
              /\ poll.instances = <<>>
              /\ data'.chore_instances = poll.chore_instances
              /\ data'.analytics = _calculate_analytics(poll.chore_instances, today)
              /\ data'.members \in {MembersRows(backend, household_id), {}}
              /\ data'.last_updated = today]_vars
    /\ [][(~PollAt("idle") /\ ~PollAt("get_members")) => data' = data]_vars
    /\ [](HasData =>
              /\ data.analytics.kind = "ok"
              /\ data.analytics.total_tasks = Len(data.chore_instances)
              /\ \A i \in DOMAIN data.chore_instances :
                    data.chore_instances[i].chores.id = data.chore_instances[i].chore_id)

\* C14 witness: a second poll has fetched and joined a task list that differs from
\* the stored one (the task was completed meanwhile) and has not yet ended: the
\* stored bundle is still the first poll's.
C14_Witness ==
    /\ HasData
    /\ PollAt("get_members")
    /\ poll.chore_instances # data.chore_instances
    /\ Len(poll.chore_instances) = Len(data.chore_instances)
    /\ ListedPending(data, 1)
    /\ ~ListedPending([chore_instances |-> poll.chore_instances], 1)

---------------------------------------------------------------------------
(* Claims on the scope of the poll result (SpecPoll) *)

\* C15 (as claimed): every record of the stored poll result is assigned to the
\* configured user, and the analytics count that user's records only.
C15_ScopedToUser ==
    HasData =>
        LET mine == SelectSeq(data.chore_instances, LAMBDA x : x.assigned_to = user_id)
        IN  /\ \A i \in DOMAIN data.chore_instances :
                  data.chore_instances[i].assigned_to = user_id
            /\ CountsMatch(data.analytics, mine, data.last_updated)

---------------------------------------------------------------------------
(* config_flow.py and the construction of the coordinator *)

\* const.py
DEFAULT_UPDATE_INTERVAL == 300

\* How the validation request ends:
\*   "ClientError"   session.post raises aiohttp.ClientError (no connection)
\*   "TimeoutError"  the timeout of 10 s expires: asyncio.TimeoutError
\*   "http_error"    a status other than 200
\*   "error_body"    status 200 and a body with an "error" field
\*   "ok"            status 200 and the members of the household
ValidationResponses == {"ClientError", "TimeoutError", "http_error", "error_body", "ok"}

\* validate_input: "ok", or the exception that leaves it. `except aiohttp.ClientError`
\* turns a ClientError into CannotConnect; asyncio.TimeoutError is no ClientError
\* and leaves as it is.
validate_input(input, response, b) ==
    IF response = "ClientError" THEN "CannotConnect"
    ELSE IF response = "TimeoutError" THEN "TimeoutError"
    ELSE IF response \in {"http_error", "error_body"} THEN "InvalidAuth"
    ELSE LET members == MembersRows(b, input.household_id)
         IN  IF members = {} THEN "InvalidHousehold"
             ELSE IF input.user_id \in Keys(members) THEN "ok" ELSE "InvalidAuth"

\* the except clauses of async_step_user: errors["base"], NoVal when none
step_user_errors(raised) ==
    IF raised = "ok" THEN NoVal
    ELSE IF raised = "CannotConnect" THEN "cannot_connect"
    ELSE IF raised = "InvalidAuth" THEN "invalid_auth"
    ELSE IF raised = "InvalidHousehold" THEN "invalid_household"
    ELSE "unknown"

\* the setup forms an operator may submit
UserInputs ==
    { UserInput(h, u, i) : h \in {"h1", "h2", "h3"}, u \in {"u1", "u3"},
                           i \in {60, DEFAULT_UPDATE_INTERVAL, 900} }

\* ConfigFlow.async_step_user with a submitted form: the entry is created with the
\* form as its data, or the form is shown again with errors
AsyncStepUser ==
    /\ ~entry.exists
    /\ \E input \in UserInputs, response \in ValidationResponses :
          LET errors == step_user_errors(validate_input(input, response, backend))
          IN  entry' = [entry EXCEPT !.input = input, !.response = response,
                                     !.errors = errors,
                                     !.exists = (errors = NoVal),
                                     !.data = IF errors = NoVal THEN input ELSE @]
    /\ UNCHANGED <<today, calcIn, calcOut, backend, poll, data, lastPoll, call, nCalls,
                 refreshes, host, setup, ui, hass>>

\* OptionsFlowHandler.async_step_init with a submitted form: the options of the
\* entry become the form
AsyncStepInit ==
    /\ entry.exists
    /\ \E interval \in {60, 900} : entry' = [entry EXCEPT !.options = interval]
    /\ UNCHANGED <<today, calcIn, calcOut, backend, poll, data, lastPoll, call, nCalls,
                 refreshes, host, setup, ui, hass>>

\* ChoreShoreDateUpdateCoordinator.__init__:
\* entry.options.get(CONF_UPDATE_INTERVAL, DEFAULT_UPDATE_INTERVAL)
coordinator_interval(e) == IF e.options # 0 THEN e.options ELSE DEFAULT_UPDATE_INTERVAL

\* async_setup_entry constructs the coordinator (when the entry is set up, and
\* again when the host loads it anew)
ConstructCoordinator ==
    /\ entry.exists
    /\ entry' = [entry EXCEPT !.update_interval = coordinator_interval(entry)]
    /\ UNCHANGED <<today, calcIn, calcOut, backend, poll, data, lastPoll, call, nCalls,
                 refreshes, host, setup, ui, hass>>

InitSetup ==
    /\ today = Date(2024, 3, 10)
    /\ calcIn = <<>>
    /\ calcOut = NotCalled
    /\ backend = Backend(<<>>)
    /\ poll = PollIdle
    /\ data = NoData
    /\ lastPoll = NoPoll
    /\ call = CallIdle
    /\ nCalls = 0
    /\ refreshes = 0
    /\ host = HostIdle
    /\ setup = NoSetup
    /\ ui = NoUi
    /\ entry = NoEntry
    /\ hass = NoHass

NextSetup ==
    \/ AsyncStepUser
    \/ AsyncStepInit
    \/ ConstructCoordinator

SpecSetup == InitSetup /\ [][NextSetup]_vars

---------------------------------------------------------------------------
(* Claims on the setup (SpecSetup) *)

\* C16 (as claimed): the coordinator is constructed with the interval of the
\* options form when one was submitted, else with the interval of the setup form;
\* 300 s only when neither gave one.
C16_ConfiguredInterval ==
    [][entry'.update_interval # entry.update_interval =>
          entry'.update_interval =
              IF entry.options # 0 THEN entry.options
              ELSE IF entry.data.update_interval # 0 THEN entry.data.update_interval
              ELSE DEFAULT_UPDATE_INTERVAL]_vars

\* what made the setup form fail
Cause(e) ==
    IF e.response \in {"ClientError", "TimeoutError"} THEN "connection"
    ELSE IF e.response \in {"http_error", "error_body"} THEN "rejected"
    ELSE IF MembersRows(backend, e.input.household_id) = {} THEN "no_members"
    ELSE IF e.input.user_id \notin Keys(MembersRows(backend, e.input.household_id))
    THEN "not_a_member"
    ELSE "none"

\* C17 (as claimed): a connection error or timeout gives cannot_connect, a rejected
\* request or a user who is no member gives invalid_auth, a household without
\* members gives invalid_household, none of them gives unknown, and the entry is
\* created exactly when there is no failure.
C17_DistinctCategories ==
    entry.response # NoVal =>
        /\ Cause(entry) = "connection" => entry.errors = "cannot_connect"
        /\ Cause(entry) \in {"rejected", "not_a_member"} => entry.errors = "invalid_auth"
        /\ Cause(entry) = "no_members" => entry.errors = "invalid_household"
        /\ entry.errors # "unknown"
        /\ entry.exists <=> Cause(entry) = "none"

---------------------------------------------------------------------------
(* Claims on the failure of a poll (SpecPoll) *)

\* the step in which a poll ends
PollEnds == PollAt("get_members") /\ poll'.pc = "idle"

\* C18: a poll ends by publishing its result or by raising UpdateFailed, nothing
\* else; a poll that raised leaves the published result as it was; and when the
\* first poll of the setup raises, the setup ends with ConfigEntryNotReady, the
\* coordinator is not stored, no entity is created and no service is registered.
C18_OnlyUpdateFailed ==
    /\ [](lastPoll.outcome \in {"none", "published", "UpdateFailed"})
    /\ [][PollEnds =>
             /\ lastPoll'.outcome = "UpdateFailed" <=> calcOut'.kind # "ok"
             /\ lastPoll'.outcome = "UpdateFailed" => data' = data
             /\ (lastPoll'.outcome = "UpdateFailed" /\ setup.state # "ready") =>
                   /\ setup'.state = "ConfigEntryNotReady"
                   /\ ~setup'.stored
                   /\ setup'.services = {}
                   /\ setup'.entities = {}]_vars
    /\ []((setup.stored \/ setup.services # {} \/ setup.entities # {}) =>
              (setup.state = "ready" /\ HasData))

\* a poll raised after an earlier one had published: the entry stays set up and
\* the published result is still there
C18_Witness ==
    /\ lastPoll.outcome = "UpdateFailed"
    /\ calcOut.kind # "ok"
    /\ HasData
    /\ setup.state = "ready"
    /\ setup.services = Services

---------------------------------------------------------------------------
(* Text: str.__lt__ and date.isoformat, for the comparisons made on strings *)

\* the characters of a number in two and in four digits, as their code points
Digits2(n) == <<48 + (n \div 10), 48 + (n % 10)>>
Digits4(n) ==
    <<48 + (n \div 1000), 48 + ((n \div 100) % 10), 48 + ((n \div 10) % 10), 48 + (n % 10)>>
Unpadded(n) == IF n < 10 THEN <<48 + n>> ELSE Digits2(n)

\* date.isoformat(): "YYYY-MM-DD"
isoformat(date) == Digits4(date.y) \o <<45>> \o Digits2(date.m) \o <<45>> \o Digits2(date.d)

\* the characters of a due_date that is a string: "2024-03-09", "2024-3-9",
\* "2024-03-09T08:00:00", "soon", ""
DueText(due) ==
    IF due.k = "str"
    THEN Digits4(due.y) \o <<45>>
            \o (IF due.pad THEN Digits2(due.m) ELSE Unpadded(due.m)) \o <<45>>
            \o (IF due.pad THEN Digits2(due.d) ELSE Unpadded(due.d))
            \o (IF due.tail THEN <<84, 48, 56, 58, 48, 48, 58, 48, 48>> ELSE <<>>)
    ELSE IF due.k = "text" THEN <<115, 111, 111, 110>>
    ELSE <<>>

\* str.__lt__: the order of the first character that differs; a proper prefix is less
RECURSIVE StrLess(_, _)
StrLess(a, b) ==
    IF b = <<>> THEN FALSE
    ELSE IF a = <<>> THEN TRUE
    ELSE IF Head(a) # Head(b) THEN Head(a) < Head(b)
    ELSE StrLess(Tail(a), Tail(b))

\* what a getter hands back: the exception that left it (NoVal: it returned) and
\* the values the claims read
Got(raised, icon, is_overdue, count) ==
    [raised |-> raised, icon |-> icon, is_overdue |-> is_overdue, count |-> count]

---------------------------------------------------------------------------
(* binary_sensor.py: ChoreShoreTaskBinarySensor *)

\* `due_date < datetime.now().date().isoformat()` with due_date =
\* task.get("due_date", ""): the rows carry the column always, so an unset due date
\* is None here, and None < str raises TypeError, as does int < str
DueBeforeIso(due, now) ==
    IF due.k \in {"none", "num"} THEN Got("TypeError", NoVal, FALSE, 0)
    ELSE Got(NoVal, NoVal, StrLess(DueText(due), isoformat(now)), 0)

\* _get_current_task: the index of the record with the sensor's task id, 0 for None
_get_current_task(d, task_id) ==
    IF \E i \in DOMAIN d.chore_instances : d.chore_instances[i].id = task_id
    THEN CHOOSE i \in DOMAIN d.chore_instances :
             /\ d.chore_instances[i].id = task_id
             /\ \A j \in 1..(i - 1) : d.chore_instances[j].id # task_id
    ELSE 0

ChoreShoreTaskBinarySensor_is_on(d, e) ==
    LET i == _get_current_task(d, e.task_id)
    IN  i # 0 /\ d.chore_instances[i].status = TASK_STATUS_PENDING

\* icon: the due date compared is that of self._task, the record of the setup
ChoreShoreTaskBinarySensor_icon(d, e, now) ==
    IF ChoreShoreTaskBinarySensor_is_on(d, e)
    THEN LET c == DueBeforeIso(e.due_date, now)
         IN  IF c.raised # NoVal THEN c
             ELSE Got(NoVal, IF c.is_overdue THEN "mdi:alert-circle" ELSE "mdi:clock-alert",
                      FALSE, 0)
    ELSE Got(NoVal, "mdi:check-circle", FALSE, 0)

\* extra_state_attributes: {} without a current task, else is_overdue of its due date
ChoreShoreTaskBinarySensor_extra_state_attributes(d, e, now) ==
    LET i == _get_current_task(d, e.task_id)
    IN  IF i = 0 THEN Got(NoVal, NoVal, FALSE, 0)
        ELSE DueBeforeIso(d.chore_instances[i].due_date, now)

---------------------------------------------------------------------------
(* sensor.py: ChoreShoreUserChoreStatusSensor *)

\* _get_user_instances: the records of the sensor's chore assigned to the user
_get_user_instances(d, chore_id) ==
    SelectSeq(d.chore_instances,
              LAMBDA x : x.chores.id = chore_id /\ x.assigned_to = user_id)

\* datetime.strptime(instance["due_date"], "%Y-%m-%d"): TypeError for None and for
\* a number, ValueError for a string that is no date (KeyError were the key missing)
StrptimeRaises(due) ==
    IF due.k \in {"none", "num"} THEN "TypeError"
    ELSE IF strptime(due).ok THEN NoVal ELSE "ValueError"

\* any(strptime(i["due_date"]).date() < today for i in pending) from record i on:
\* it stops at the first overdue record, and at the first record that raises
RECURSIVE AnyOverdue(_, _, _)
AnyOverdue(pending, i, now) ==
    IF i > Len(pending) THEN Got(NoVal, NoVal, FALSE, 0)
    ELSE IF StrptimeRaises(pending[i].due_date) # NoVal
    THEN Got(StrptimeRaises(pending[i].due_date), NoVal, FALSE, 0)
    ELSE IF DateLess(strptime(pending[i].due_date).date, now)
    THEN Got(NoVal, NoVal, TRUE, 0)
    ELSE AnyOverdue(pending, i + 1, now)

ChoreShoreUserChoreStatusSensor_icon(d, chore_id, now) ==
    LET instances == _get_user_instances(d, chore_id)
        pending == SelectSeq(instances, LAMBDA x : x.status = "pending")
        completed == SelectSeq(instances, LAMBDA x : x.status = "completed")
        overdue == AnyOverdue(pending, 1, now)
    IN  IF Len(pending) > 0
        THEN IF overdue.raised # NoVal THEN overdue
             ELSE Got(NoVal, IF overdue.is_overdue THEN "mdi:alert-circle"
                                                   ELSE "mdi:clock-outline", FALSE, 0)
        ELSE IF Len(completed) > 0 THEN Got(NoVal, "mdi:check-circle", FALSE, 0)
        ELSE Got(NoVal, "mdi:clipboard-list", FALSE, 0)

\* extra_state_attributes: the loops catch (ValueError, KeyError); the TypeError of
\* a due date that is None or a number leaves the getter. count: overdue_instances
ChoreShoreUserChoreStatusSensor_extra_state_attributes(d, chore_id, now) ==
    LET instances == _get_user_instances(d, chore_id)
        pending == SelectSeq(instances, LAMBDA x : x.status = "pending")
        overdue == { i \in DOMAIN pending :
                        /\ StrptimeRaises(pending[i].due_date) = NoVal
                        /\ DateLess(strptime(pending[i].due_date).date, now) }
    IN  IF instances = <<>> THEN Got(NoVal, NoVal, FALSE, 0)
        ELSE IF \E i \in DOMAIN instances : StrptimeRaises(instances[i].due_date) = "TypeError"
        THEN Got("TypeError", NoVal, FALSE, 0)
        ELSE Got(NoVal, NoVal, FALSE, Cardinality(overdue))

---------------------------------------------------------------------------
(* switch.py: ChoreShoreUserChoreSwitch.extra_state_attributes *)

\* the exception of _get_most_overdue_instance leaves the getter; else the loop
\* counts the overdue instances (count), catching ValueError
ChoreShoreUserChoreSwitch_extra_state_attributes(d, chore_id, now) ==
    LET current_instances == _get_current_instances(d, chore_id)
        most_overdue == _get_most_overdue_instance(current_instances, now)
        overdue == { i \in DOMAIN current_instances :
                        Classify(current_instances[i].due_date, now) = "overdue" }
    IN  IF current_instances = <<>> THEN Got(NoVal, NoVal, FALSE, 0)
        ELSE IF most_overdue.raised # NoVal THEN Got(most_overdue.raised, NoVal, FALSE, 0)
        ELSE Got(NoVal, NoVal, FALSE, Cardinality(overdue))

\* is_on as its docstring has it: true if any instance of the chore is completed
ChoreShoreUserChoreSwitch_is_on_docstring(d, chore_id) ==
    \E i \in DOMAIN d.chore_instances :
        /\ d.chore_instances[i].chores.id = chore_id
        /\ d.chore_instances[i].status = TASK_STATUS_COMPLETED

\* is_on: len(current_instances) == 0
ChoreShoreUserChoreSwitch_is_on(d, chore_id) == Len(_get_current_instances(d, chore_id)) = 0

\* available: len(current_instances) > 0
ChoreShoreUserChoreSwitch_available(d, chore_id) == Len(_get_current_instances(d, chore_id)) > 0

---------------------------------------------------------------------------
(* SpecEntities: the host reads the entities of a set-up entry *)

\* the host reads property op of entity e and gets got
Reads(op, e, got) ==
    /\ ~TurnOnAwaits(ui)
    /\ ui' = [NoUi EXCEPT !.op = op, !.pc = "done", !.target = e, !.raised = got.raised,
                          !.icon = got.icon, !.is_overdue = got.is_overdue,
                          !.count = got.count]
    /\ UNCHANGED <<today, calcIn, calcOut, backend, poll, data, lastPoll, call, nCalls,
                 refreshes, host, setup, entry, hass>>

SensorIcon ==
    \E e \in { x \in setup.entities : x.kind = "chore_sensor" } :
        Reads("sensor.icon", e, ChoreShoreUserChoreStatusSensor_icon(data, e.chore_id, today))

SensorAttributes ==
    \E e \in { x \in setup.entities : x.kind = "chore_sensor" } :
        Reads("sensor.extra_state_attributes", e,
              ChoreShoreUserChoreStatusSensor_extra_state_attributes(data, e.chore_id, today))

BinarySensorIcon ==
    \E e \in { x \in setup.entities : x.kind = "task_binary_sensor" } :
        Reads("binary_sensor.icon", e, ChoreShoreTaskBinarySensor_icon(data, e, today))

BinarySensorAttributes ==
    \E e \in { x \in setup.entities : x.kind = "task_binary_sensor" } :
        Reads("binary_sensor.extra_state_attributes", e,
              ChoreShoreTaskBinarySensor_extra_state_attributes(data, e, today))

SwitchAttributes ==
    \E e \in Switches(setup.entities) :
        Reads("switch.extra_state_attributes", e,
              ChoreShoreUserChoreSwitch_extra_state_attributes(data, e.chore_id, today))

\* the host writes the state of a switch: it reads is_on and available
SwitchState ==
    /\ ~TurnOnAwaits(ui)
    /\ \E e \in Switches(setup.entities) :
          ui' = [NoUi EXCEPT !.op = "switch.state", !.pc = "done", !.target = e,
                             !.is_on = ChoreShoreUserChoreSwitch_is_on(data, e.chore_id),
                             !.available = ChoreShoreUserChoreSwitch_available(data, e.chore_id)]
    /\ UNCHANGED <<today, calcIn, calcOut, backend, poll, data, lastPoll, call, nCalls,
                 refreshes, host, setup, entry, hass>>

\* records of chore c1 assigned to the configured user
EntityShape(status, due_date) == Shape("c1", "u1", NoVal, status, due_date)

EntityShapes ==
    { EntityShape(TASK_STATUS_PENDING, d) :
          d \in { Yesterday, DueStr(2024, 3, 11, TRUE, FALSE), DueStr(2024, 3, 9, FALSE, FALSE),
                  DueOther("none"), DueOther("empty"), DueOther("text") } }
    \cup { EntityShape(TASK_STATUS_COMPLETED, d) : d \in { Yesterday, DueOther("num") } }

\* the chore_instances tables drawn: one record of each shape, and a dateless
\* pending record after an overdue one and after one due tomorrow
EntityTables ==
    { <<shape>> : shape \in EntityShapes }
    \cup { << EntityShape(TASK_STATUS_PENDING, d), EntityShape(TASK_STATUS_PENDING, DueOther("none")) >> :
              d \in { Yesterday, DueStr(2024, 3, 11, TRUE, FALSE) } }

InitEntities ==
    /\ today = Date(2024, 3, 10)
    /\ calcIn = <<>>
    /\ calcOut = NotCalled
    /\ \E shapes \in EntityTables : backend = Backend(MakeInstances(shapes))
    /\ poll = PollIdle
    /\ data = NoData
    /\ lastPoll = NoPoll
    /\ call = CallIdle
    /\ nCalls = 0
    /\ refreshes = 0
    /\ host = HostIdle
    /\ setup = NoSetup
    /\ ui = NoUi
    /\ entry = NoEntry
    /\ hass = NoHass

NextEntities ==
    \/ PollStart
    \/ FetchInstances
    \/ FetchChores
    \/ FetchProfiles
    \/ FetchMembers
    \/ SensorIcon
    \/ SensorAttributes
    \/ BinarySensorIcon
    \/ BinarySensorAttributes
    \/ SwitchAttributes
    \/ SwitchState
    \/ SwitchTurnOn
    \/ PostResolves
    \/ RefreshReturns

SpecEntities == InitEntities /\ [][NextEntities]_vars

---------------------------------------------------------------------------
(* Claims on the entities (SpecEntities) *)

\* the overdue definition of the analytics for record i of the poll result
AnalyticsOverdue(d, i, now) ==
    /\ d.chore_instances[i].status = TASK_STATUS_PENDING
    /\ OverdueCheck(d.chore_instances[i].due_date, now) = "overdue"

\* C19 (as claimed): whenever a per-task binary sensor returns its attributes or
\* its icon for a record of the poll result, is_overdue is true, and the icon is
\* the alert icon, exactly when the record is pending and its due date is
\* strictly before today.
C19_FlagAgreesWithAnalytics ==
    [][(/\ ui' # ui
        /\ ui'.target.kind = "task_binary_sensor"
        /\ ui'.raised = NoVal
        /\ _get_current_task(data, ui'.target.task_id) # 0) =>
          LET overdue == AnalyticsOverdue(data, _get_current_task(data, ui'.target.task_id),
                                          today)
          IN  /\ ui'.op = "binary_sensor.extra_state_attributes" => ui'.is_overdue = overdue
              /\ ui'.op = "binary_sensor.icon" =>
                     ((ui'.icon = "mdi:alert-circle") = overdue)]_vars

\* C20 (as claimed): no getter of an entity and no turn-on of a switch raises.
C20_NoGetterRaises == ui.op # NoVal => ui.raised = NoVal

---------------------------------------------------------------------------
(* Claims on the switch (SpecEntities) *)

\* the instance C21 names for a non-empty list: the earliest of those due before
\* today; else the earliest of those with a date of today or later; else the first
ClaimedMostOverdue(instances, now) ==
    LET idx == DOMAIN instances
        overdue == { i \in idx : Classify(instances[i].due_date, now) = "overdue" }
        future == { i \in idx : Classify(instances[i].due_date, now) = "future" }
    IN  IF overdue # {} THEN instances[Earliest(instances, overdue)].id
        ELSE IF future # {} THEN instances[Earliest(instances, future)].id
        ELSE instances[1].id

\* a switch turn-on that found pending instances and so called
\* _get_most_overdue_instance on them
TurnOnLooksUp ==
    /\ ui' # ui
    /\ ui'.op = "async_turn_on"
    /\ _get_current_instances(data, ui'.target.chore_id) # <<>>

\* C21 (as claimed): on a non-empty list of pending instances
\* _get_most_overdue_instance does not raise and returns the earliest overdue
\* instance, else the earliest instance due today or later, else the first one.
C21_MostOverdueReturned ==
    [][TurnOnLooksUp =>
          /\ ui'.raised = NoVal
          /\ ui'.task_id = ClaimedMostOverdue(_get_current_instances(data, ui'.target.chore_id),
                                              today)]_vars

---------------------------------------------------------------------------
(* Claims on the switch (Spec) *)

\* the ids of the records of the poll result that are pending, of the chore and
\* assigned to the configured user
PendingOfChore(d, chore_id) ==
    { d.chore_instances[i].id :
          i \in { k \in DOMAIN d.chore_instances :
                     /\ d.chore_instances[k].status = TASK_STATUS_PENDING
                     /\ d.chore_instances[k].chores.id = chore_id
                     /\ d.chore_instances[k].assigned_to = user_id } }

\* the step in which async_turn_on runs up to its await
TurnOnStarts == ui' # ui /\ ui'.op = "async_turn_on" /\ ~TurnOnAwaits(ui)

\* C22: a switch turn-on sends one complete mutation at most, for a task the poll
\* result lists as pending, of the switch's chore and assigned to the configured
\* user; with no such task it sends nothing and requests no refresh; while it
\* awaits its mutation no other is sent; and a turn-off sends nothing and changes
\* no state.
C22_TurnOnSendsAtMostOne ==
    /\ [][TurnOnStarts =>
             /\ call' # call =>
                   /\ call'.pc = "posting"
                   /\ call'.op = "complete_task"
                   /\ call'.task_id \in PendingOfChore(data, ui'.target.chore_id)
             /\ PendingOfChore(data, ui'.target.chore_id) = {} =>
                   (call' = call /\ ui'.pc = "done")
             /\ refreshes' = refreshes
             /\ host' = host
             /\ backend' = backend
             /\ data' = data]_vars
    /\ [][TurnOnAwaits(ui) => ~MutationSent]_vars
    /\ [][(ui' # ui /\ ui'.op = "async_turn_off") =>
             UNCHANGED <<today, backend, poll, data, lastPoll, call, refreshes, host,
                         setup, entry>>]_vars

\* a turn-on has sent its one mutation, the backend applied it, and the turn-on is
\* over after the refresh it requested itself
C22_Witness ==
    /\ ui.op = "async_turn_on"
    /\ ui.pc = "done"
    /\ ui.task_id # 0
    /\ call.pc = "returned"
    /\ call.op = "complete_task"
    /\ call.task_id = ui.task_id
    /\ call.result = "True"
    /\ refreshes = 2

---------------------------------------------------------------------------
(* Claims on the setup of the platforms (SpecPoll) *)

\* C23 (as claimed): when the first poll has published, the sensor and the switch
\* platform are set up without an exception, and the sensors are the five analytics
\* sensors and one status sensor per chore id in the poll result.
C23_PlatformsSetUp ==
    [][(setup.state # "ready" /\ setup'.state = "ready") =>
          /\ setup'.platforms.sensor = NoVal
          /\ setup'.platforms.switch = NoVal
          /\ { e \in setup'.entities : e.kind \in {"analytics_sensor", "chore_sensor"} }
                = AnalyticsSensors
                     \cup { Entity("chore_sensor", c, 0, DueOther("none")) :
                               c \in chore_ids(data'.chore_instances) }]_vars

---------------------------------------------------------------------------
(* Claims on the records of the poll result (SpecPoll) *)

\* C24: every record of the poll result carries the chore definition of its
\* chore_id, which is a chore of the configured household.
C24_ChoreAttached ==
    \A i \in DOMAIN data.chore_instances :
        LET x == data.chore_instances[i]
        IN  /\ x.chores # NoChore
            /\ x.chores.id = x.chore_id
            /\ x.chores.household_id = household_id
            /\ x.chores \in backend.chores

\* a poll result with a record, of a backend that also holds an instance of a
\* chore of another household
C24_Witness ==
    /\ data.chore_instances # <<>>
    /\ \E i \in DOMAIN backend.instances :
          /\ backend.instances[i].chore_id = "c2"
          /\ \A k \in DOMAIN data.chore_instances : data.chore_instances[k].id # i

---------------------------------------------------------------------------
(* Claims on the state of a switch (SpecEntities) *)

---------------------------------------------------------------------------
(* Claims on the switches the setup creates (SpecPoll) *)

---------------------------------------------------------------------------
(* Claims on the failure of a request (SpecPoll) *)

\* the instances of the backend whose chore is a chore of the configured household
HouseholdInstanceIds(b) ==
    { i \in DOMAIN b.instances :
         \E c \in b.chores : c.id = b.instances[i].chore_id /\ c.household_id = household_id }

\* the poll that ends: the instances or the chores request failed / only the
\* profiles request of _fetch_chore_instances failed
ListRequestFailed == poll.failed \cap {"chore_instances", "chores"} # {}
OnlyProfilesFailed == poll.failed = {"profiles"}

\* C27 (as claimed): a poll whose instances or chores request failed publishes a
\* result with an empty task list and all-zero analytics in place of the earlier
\* one; a poll in which only the profiles request failed keeps the task list of
\* the household, without the profiles.
C27_FailedListRequestEmpties ==
    /\ [][(PollEnds /\ ListRequestFailed) =>
             /\ lastPoll'.outcome = "published"
             /\ data'.chore_instances = <<>>
             /\ data'.analytics = Analytics("ok", 0, 0, 0, 0, 0)]_vars
    /\ [][(PollEnds /\ OnlyProfilesFailed) =>
             /\ { poll.chore_instances[k].id : k \in DOMAIN poll.chore_instances }
                   = HouseholdInstanceIds(backend)
             /\ \A k \in DOMAIN poll.chore_instances :
                   /\ poll.chore_instances[k].assigned_user = NoProfile
                   /\ poll.chore_instances[k].completed_user = NoProfile
             /\ lastPoll'.outcome = "published" =>
                   data'.chore_instances = poll.chore_instances]_vars

---------------------------------------------------------------------------
(* SpecLifecycle: config entries are set up and unloaded, services are called *)

\* async_unload_entry: the coordinator is popped from hass.data[DOMAIN] when the
\* platforms unloaded; the services stay registered (nothing removes them)
async_unload_entry(s, unload_ok) ==
    IF unload_ok THEN [s EXCEPT !.state = "not_loaded", !.stored = FALSE, !.entities = {}]
    ELSE s

\* the host sets up an entry that is not loaded: the first refresh publishes an
\* empty result or raises. hass.services.async_register replaces the handlers of
\* the domain's services by closures over the coordinator of this entry; services
\* an earlier setup of the entry registered are still registered.
SetupEntry ==
    /\ \E e \in Entries, outcome \in {"published", "UpdateFailed"} :
          LET s == async_setup_entry(hass.setups[e], outcome,
                                     PollResult(<<>>, EmptyAnalytics, {}, today))
          IN  /\ hass.setups[e].state # "ready"
              /\ hass' = [hass EXCEPT !.setups[e] =
                                          [s EXCEPT !.services = @ \cup hass.setups[e].services],
                                      !.handler = IF s.state = "ready" THEN e ELSE @]
    /\ UNCHANGED <<today, calcIn, calcOut, backend, poll, data, lastPoll, call, nCalls,
                 refreshes, host, setup, ui, entry>>

\* the host unloads a loaded entry; async_unload_platforms succeeds or not
UnloadEntry ==
    /\ \E e \in Entries, unload_ok \in BOOLEAN :
          /\ hass.setups[e].state = "ready"
          /\ hass' = [hass EXCEPT !.setups[e] = async_unload_entry(@, unload_ok),
                                  !.unloaded = [entry |-> e, unload_ok |-> unload_ok]]
    /\ UNCHANGED <<today, calcIn, calcOut, backend, poll, data, lastPoll, call, nCalls,
                 refreshes, host, setup, ui, entry>>

\* a registered service is called: its handler calls complete_task, skip_task or
\* async_request_refresh of the coordinator it holds
CallService ==
    /\ hass.handler # NoVal
    /\ \E service \in hass.setups[hass.handler].services, task_id \in {1, 2} :
          hass' = [hass EXCEPT !.called =
                      [service |-> service, through |-> hass.handler,
                       task_id |-> IF service = SERVICE_REFRESH_DATA THEN 0 ELSE task_id]]
    /\ UNCHANGED <<today, calcIn, calcOut, backend, poll, data, lastPoll, call, nCalls,
                 refreshes, host, setup, ui, entry>>

InitLifecycle == InitSetup

NextLifecycle ==
    \/ SetupEntry
    \/ UnloadEntry
    \/ CallService

SpecLifecycle == InitLifecycle /\ [][NextLifecycle]_vars

---------------------------------------------------------------------------
(* Claims on setups and unloads (SpecLifecycle) *)

\* C28 (as claimed): a service call goes through the coordinator of an entry that
\* is loaded and in the registry; and a coordinator leaves the registry exactly in
\* an unload of its entry whose platforms unloaded.
C28_ServicesOfLoadedEntry ==
    /\ [][hass'.called # hass.called =>
             /\ hass.setups[hass'.called.through].state = "ready"
             /\ hass.setups[hass'.called.through].stored]_vars
    /\ [][\A e \in Entries :
             (hass.setups[e].stored /\ ~hass'.setups[e].stored) <=>
                 (/\ hass.setups[e].state = "ready"
                  /\ hass'.setups[e].state = "not_loaded"
                  /\ hass'.unloaded = [entry |-> e, unload_ok |-> TRUE])]_vars

====
